---- MODULE Spec2Model ----
(***************************************************************************)
(* The roster-balancing and assignment subsystem of the sports platform    *)
(* (src/app/routes.py, src/app/models.py) as a state machine.               *)
(*                                                                         *)
(* The database is the shared state.  Every db.session.commit() of a       *)
(* handler is one atomic step; the statements a handler runs between two   *)
(* commits are part of the step that ends with the commit.  The match      *)
(* handlers (auto_balance, shuffle, toggle_lock, assign, match_detail) run *)
(* as concurrent requests, each in its own session, so their steps         *)
(* interleave.  The administrative handlers (create_team, add_player,      *)
(* create_match, join_open_match, accept_invite) are single steps.         *)
(*                                                                         *)
(* Not modelled: sports (every team plays the default sport), names,       *)
(* colours, dates, the names of the skills (a PlayerSkill row is its value).*)
(***************************************************************************)
EXTENDS Integers, Sequences, FiniteSets, Bags, TLC

\* ---------------------------------------------------------------- bounds
NumTeams == 2
MaxPlayers == 2
NumMatches == 1
NumReq == 2
MaxCalls == 2

\* ------------------------------------------------------ program constants
DefaultRating == 1200

\* Values the add-player form's "skill" field takes in the model.
Skills == {1000, 1400}

\* A team slot of a match that is not set (None, falsy in the handlers).
NoTeam == 0

\* team_side values a client may post to /assign: the two sides, the removal
\* keyword, a value that is none of them, and a missing field (None).
NoSide == "None"
SideInputs == {"A", "B", "remove", "X", NoSide}

VARIABLES
    teams,        \* ids of the Team rows
    players,      \* Player rows: id -> [team_id, skill_rating]
    matches,      \* Match rows: id -> [team1_id, team2_id, status]
    assignments,  \* MatchAssignment rows: match id -> bag of [player_id, team_side]
    req,          \* the requests in flight: a bag of their handlers' locals
    response,     \* the response the latest step sent, NoResponse if it sent none
    calls,        \* the number of requests the clients have sent
    last,         \* history: the request answered last, when clients take turns
    skills,       \* PlayerSkill rows: player id -> the values of the player's rows
    team_rating   \* Team.skill_rating: team id -> rating

vars == <<teams, players, matches, assignments, req, response, calls, last,
          skills, team_rating>>

MatchIds == 1..NumMatches

\* ---------------------------------------------------------------- helpers
Max(S) == CHOOSE x \in S : \A y \in S : y <= x

\* The id SQLite gives the next row of a table whose ids are S (max rowid + 1).
NextId(S) == IF S = {} THEN 1 ELSE Max(S) + 1

Range(s) == {s[i] : i \in DOMAIN s}

RECURSIVE SeqSum(_, _)
SeqSum(s, key) == IF s = <<>> THEN 0 ELSE key[Head(s)] + SeqSum(Tail(s), key)

\* ids of a set in ascending order (the order a query returns rows in)
RECURSIVE Ascending(_)
Ascending(S) ==
    IF S = {} THEN <<>>
    ELSE LET x == CHOOSE y \in S : \A z \in S : y <= z
         IN <<x>> \o Ascending(S \ {x})

\* Player.query.filter_by(team_id=t).all()
PlayersOfTeam(t) == Ascending({p \in DOMAIN players : players[p].team_id = t})

\* Player.query.all()
AllPlayers == Ascending(DOMAIN players)

\* skill_rating of every player row
Rating == [p \in DOMAIN players |-> players[p].skill_rating]

\* The pool without the fallback to every player.
PoolFor_NoFallback(m) ==
    LET p1 == IF matches[m].team1_id # NoTeam
              THEN PlayersOfTeam(matches[m].team1_id) ELSE <<>>
        p2 == IF matches[m].team2_id # NoTeam
              THEN PlayersOfTeam(matches[m].team2_id) ELSE <<>>
    IN p1 \o p2

\* The pool of match_auto_balance and match_shuffle.
PoolFor(m) ==
    LET p1 == IF matches[m].team1_id # NoTeam
              THEN PlayersOfTeam(matches[m].team1_id) ELSE <<>>
        p2 == IF matches[m].team2_id # NoTeam
              THEN PlayersOfTeam(matches[m].team2_id) ELSE <<>>
    IN IF p1 \o p2 # <<>> THEN p1 \o p2 ELSE AllPlayers

\* -------------------------------------------------- RosterBalancer (utils)
\* Stable sort by rating, descending: x goes after every element rated >= x.
InsertDesc(s, x, key) ==
    LET c == Cardinality({i \in DOMAIN s : key[s[i]] >= key[x]})
    IN SubSeq(s, 1, c) \o <<x>> \o SubSeq(s, c + 1, Len(s))

RECURSIVE SortDesc(_, _)
SortDesc(pool, key) ==
    IF pool = <<>> THEN <<>>
    ELSE InsertDesc(SortDesc(SubSeq(pool, 1, Len(pool) - 1), key),
                    pool[Len(pool)], key)

\* A tie of the running sums goes to side B.
TakesA_TieToB(sa, sb) == sa < sb

\* Which side takes the next player, given the running sums.
TakesA(sa, sb) == sa <= sb

RECURSIVE Greedy(_, _, _, _, _, _)
Greedy(s, key, a, b, sa, sb) ==
    IF s = <<>> THEN <<a, b>>
    ELSE LET p == Head(s)
         IN IF TakesA(sa, sb)
            THEN Greedy(Tail(s), key, Append(a, p), b, sa + key[p], sb)
            ELSE Greedy(Tail(s), key, a, Append(b, p), sa, sb + key[p])

balance_teams(pool, key) == Greedy(SortDesc(pool, key), key, <<>>, <<>>, 0, 0)

\* Where shuffle splits a permuted pool of n entries.
Midpoint(n) == n \div 2

\* Every outcome of shuffle_players_list: a permutation of the pool's entries,
\* split at the midpoint.
shuffle_players_list(pool) ==
    LET n == Len(pool)
    IN {<<[i \in 1..Midpoint(n) |-> pool[f[i]]],
          [i \in 1..(n - Midpoint(n)) |-> pool[f[Midpoint(n) + i]]]>> :
            f \in Permutations(1..n)}

\* ------------------------------------------------------ AssignmentLedger
Row(p, side) == [player_id |-> p, team_side |-> side]

RECURSIVE RowsOf(_, _)
RowsOf(s, side) ==
    IF s = <<>> THEN EmptyBag
    ELSE [e \in {Row(Head(s), side)} |-> 1] (+) RowsOf(Tail(s), side)

\* The rows the two insert loops add for sides a and b.
NewRows(a, b) == RowsOf(a, "A") (+) RowsOf(b, "B")

\* The delete removes no row.
WithoutPlayer_Nothing(B, p) == B

\* The delete leaves out the filter on player_id.
WithoutPlayer_WholeMatch(B, p) == EmptyBag

\* MatchAssignment.query.filter_by(match_id=m, player_id=p).delete()
WithoutPlayer(B, p) ==
    LET keep == {e \in DOMAIN B : e.player_id # p}
    IN [e \in keep |-> B[e]]

\* The count leaves out the rows of side A.
RowCount_SideBOnly(m) ==
    BagCardinality([e \in {x \in DOMAIN assignments[m] : x.team_side # "A"}
                      |-> assignments[m][e]])

\* MatchAssignment.query.filter_by(match_id=m).count()
RowCount(m) == BagCardinality(assignments[m])

\* ------------------------------------------------------------- requests
\* The locals of a handler: where it stands (pc), its match, the pool and the
\* two sides of a balance or shuffle, the player and side of an assign, the
\* status a toggle is about to write (side), and the rows its delete removed
\* (old).
Locals == [kind |-> "", m |-> 0, pc |-> "", pool |-> <<>>, a |-> <<>>, b |-> <<>>,
           player_id |-> 0, side |-> "", old |-> EmptyBag]

One(l) == SetToBag({l})

\* A response: what it says and, from a balance or shuffle, the match it is
\* about and the two sides it lists.
Says(what) == [says |-> what, m |-> 0, team_a |-> <<>>, team_b |-> <<>>]

NoResponse == Says("none")

InFlight == BagToSet(req)

\* A client sends a request: a worker takes it if one is free.
Accept ==
    /\ BagCardinality(req) < NumReq
    /\ calls < MaxCalls
    /\ calls' = calls + 1

\* The new request is answered at once with res.
Reject(res) ==
    /\ UNCHANGED req
    /\ response' = Says(res)

\* The new request goes on with locals l.
Start(l) ==
    /\ req' = req (+) One(l)
    /\ response' = NoResponse

\* The request with locals l goes on with locals l2.
Continue(l, l2) ==
    /\ req' = (req (-) One(l)) (+) One(l2)
    /\ response' = NoResponse
    /\ UNCHANGED calls

\* The request with locals l returns res.
Return(l, res) ==
    /\ req' = req (-) One(l)
    /\ response' = Says(res)
    /\ UNCHANGED calls

\* The gate tests another spelling of the status.
IsLocked_WrongStatus(m) == matches[m].status = "Locked"

\* The gate of the mutating handlers: match.status == "locked".
IsLocked(m) == matches[m].status = "locked"

\* -------------------------------------------------- recalc_team_skill
\* Python's round of total / count: to the nearest integer, a half to the
\* even one.  (\div rounds down, % is never negative.)
PyRound(total, count) ==
    LET q == total \div count
        r == total % count
    IN IF 2 * r < count THEN q
       ELSE IF 2 * r > count THEN q + 1
       ELSE IF q % 2 = 0 THEN q ELSE q + 1

RECURSIVE SumOf(_)
SumOf(s) == IF s = <<>> THEN 0 ELSE Head(s) + SumOf(Tail(s))

\* The sum of f over the set S of player ids.
RECURSIVE Total(_, _)
Total(S, f) ==
    IF S = {} THEN 0
    ELSE LET x == CHOOSE y \in S : TRUE IN f[x] + Total(S \ {x}, f)

\* rating or 1200: a rating of 0 counts as the default
OrDefault(rating) == IF rating = 0 THEN DefaultRating ELSE rating

\* The rating is the mean of the members' own mean skill values.
recalc_team_skill_PerPlayerMean(t, P, S, old) ==
    LET members == {p \in DOMAIN P : P[p].team_id = t}
        skilled == {p \in members : S[p] # <<>>}
    IN IF skilled # {}
       THEN PyRound(Total(skilled, [p \in skilled |-> PyRound(SumOf(S[p]), Len(S[p]))]),
                    Cardinality(skilled))
       ELSE old

\* The rating recalc_team_skill stores for team t, given the Player rows P,
\* the PlayerSkill rows S and the rating the team has.
recalc_team_skill(t, P, S, old) ==
    LET members == {p \in DOMAIN P : P[p].team_id = t}
        total == Total(members, [p \in members |-> SumOf(S[p])])
        count == Total(members, [p \in members |-> Len(S[p])])
    IN IF count > 0 THEN PyRound(total, count)
       ELSE IF members # {}
       THEN PyRound(Total(members, [p \in members |-> OrDefault(P[p].skill_rating)]),
                    Cardinality(members))
       ELSE OrDefault(old)

\* No request has been answered yet.
NoCall == [call |-> Locals, says |-> "none", rows |-> [m \in MatchIds |-> EmptyBag]]

Init ==
    /\ teams = {}
    /\ players = <<>>
    /\ matches = <<>>
    /\ assignments = [m \in MatchIds |-> EmptyBag]
    /\ req = EmptyBag
    /\ response = NoResponse
    /\ calls = 0
    /\ last = NoCall
    /\ skills = [p \in DOMAIN players |-> <<>>]
    /\ team_rating = [t \in teams |->
                        recalc_team_skill(t, players, skills, DefaultRating)]

\* ------------------------------------------------ administrative handlers
\* They answer with a redirect, which is not a JSON response.
NewPlayer(t, skill) == [team_id |-> t, skill_rating |-> skill]

AddRow(f, id, row) == [x \in DOMAIN f \cup {id} |-> IF x = id THEN row ELSE f[x]]

\* POST /teams/create, with or without a captain
create_team(captain, skill) ==
    /\ NextId(teams) <= NumTeams
    /\ teams' = teams \cup {NextId(teams)}
    /\ team_rating' = AddRow(team_rating, NextId(teams), skill)
    /\ IF captain
       THEN /\ NextId(DOMAIN players) <= MaxPlayers
            /\ players' = AddRow(players, NextId(DOMAIN players),
                                 NewPlayer(NextId(teams), skill))
            /\ skills' = AddRow(skills, NextId(DOMAIN players), <<>>)
       ELSE UNCHANGED <<players, skills>>
    /\ response' = NoResponse
    /\ UNCHANGED <<matches, assignments, req, calls, last>>

\* POST /teams/<team_id>/add_player: the player with the rating of the
\* "skill" field, a PlayerSkill row for every skill_* field of the form, and
\* the team's rating recalculated.
team_add_player(t, skill, form) ==
    /\ t \in teams
    /\ NextId(DOMAIN players) <= MaxPlayers
    /\ players' = AddRow(players, NextId(DOMAIN players), NewPlayer(t, skill))
    /\ skills' = AddRow(skills, NextId(DOMAIN players), form)
    /\ team_rating' = [team_rating EXCEPT
                         ![t] = recalc_team_skill(t, players', skills', @)]
    /\ response' = NoResponse
    /\ UNCHANGED <<teams, matches, assignments, req, calls, last>>

\* POST /players/<player_id>/edit: the rating of the "skill_rating" field when
\* the form has one, the player's PlayerSkill rows replaced by the skill_*
\* fields of the form, and the rating of the player's team recalculated.
edit_player(p, has_rating, rating, form) ==
    /\ p \in DOMAIN players
    /\ players' = IF has_rating THEN [players EXCEPT ![p].skill_rating = rating]
                  ELSE players
    /\ skills' = [skills EXCEPT ![p] = form]
    /\ team_rating' =
          IF players[p].team_id # NoTeam
          THEN [team_rating EXCEPT
                  ![players[p].team_id] = recalc_team_skill(players[p].team_id,
                                                            players', skills', @)]
          ELSE team_rating
    /\ response' = NoResponse
    /\ UNCHANGED <<teams, matches, assignments, req, calls, last>>

\* The rows of f without the row of id.
DropRow(f, id) == [x \in DOMAIN f \ {id} |-> f[x]]

\* The recalculation after the delete raises: the player had no team
\* (team.players of None), or teammates remain (skill.skill_value is no
\* attribute of a PlayerSkill row; with no row at all the division is by 0).
DeleteRaises(p) ==
    \/ players[p].team_id = NoTeam
    \/ \E q \in DOMAIN players \ {p} : players[q].team_id = players[p].team_id

\* /player/<player_id>/delete: the player's PlayerSkill rows and the player
\* are deleted and committed; the recalculation that follows writes no column
\* of the team (average_skill_rating is none).  Here the answer matters: a
\* redirect, or the error the recalculation raises.
delete_player(p) ==
    /\ p \in DOMAIN players
    /\ players' = DropRow(players, p)
    /\ skills' = DropRow(skills, p)
    /\ response' = IF DeleteRaises(p) THEN Says("error") ELSE Says("redirect")
    /\ UNCHANGED <<teams, team_rating, matches, assignments, req, calls, last>>

\* POST /matches/create
create_match(t1, t2) ==
    /\ NextId(DOMAIN matches) <= NumMatches
    /\ matches' = AddRow(matches, NextId(DOMAIN matches),
                         [team1_id |-> t1, team2_id |-> t2, status |-> "pending"])
    /\ response' = NoResponse
    /\ UNCHANGED <<teams, players, assignments, req, calls, last, skills, team_rating>>

\* POST /matches/<match_id>/join/<team_id>
join_open_match(m, t) ==
    /\ m \in DOMAIN matches
    /\ ~IsLocked(m)
    /\ \/ /\ matches[m].team1_id = NoTeam
          /\ matches' = [matches EXCEPT ![m].team1_id = t]
       \/ /\ matches[m].team1_id # NoTeam
          /\ matches[m].team2_id = NoTeam
          /\ matches' = [matches EXCEPT ![m].team2_id = t]
    /\ response' = NoResponse
    /\ UNCHANGED <<teams, players, assignments, req, calls, last, skills, team_rating>>

\* POST /invite/<token> for a match invite: a new player without a team, and
\* an assignment row on side A.  The Invite row it needs is made by
\* invite_team_to_match, which any existing match allows at any time and which
\* changes no other row; the invite stays usable after an acceptance.
accept_invite(m) ==
    /\ m \in DOMAIN matches
    /\ NextId(DOMAIN players) <= MaxPlayers
    /\ players' = AddRow(players, NextId(DOMAIN players),
                         NewPlayer(NoTeam, DefaultRating))
    /\ skills' = AddRow(skills, NextId(DOMAIN players), <<>>)
    /\ assignments' = [assignments EXCEPT
                         ![m] = @ (+) One(Row(NextId(DOMAIN players), "A"))]
    /\ response' = NoResponse
    /\ UNCHANGED <<teams, matches, req, calls, last, team_rating>>

\* ------------------------------------------- match_auto_balance, match_shuffle
\* get_or_404, the lock gate, the pool and the partition: all reads.
ReplaceBegin(m, kind, pool, sides) ==
    /\ Accept
    /\ IF m \notin DOMAIN matches THEN Reject("MatchNotFound")
       ELSE IF IsLocked(m) THEN Reject("MatchLocked")
       ELSE Start([Locals EXCEPT !.kind = kind, !.m = m, !.pc = "delete",
                                 !.pool = pool, !.a = sides[1], !.b = sides[2]])
    /\ UNCHANGED <<teams, players, matches, assignments>>

\* The pool a handler reads for match id m (none when the match is not found).
PoolRead(m) == IF m \in DOMAIN matches THEN PoolFor(m) ELSE <<>>

BalanceBegin(m) ==
    ReplaceBegin(m, "balance", PoolRead(m), balance_teams(PoolRead(m), Rating))

ShuffleBegin(m) ==
    \E sides \in shuffle_players_list(PoolRead(m)) :
        ReplaceBegin(m, "shuffle", PoolRead(m), sides)

\* The delete of the old rows is left out.
ReplaceDelete_KeepsRows(l) ==
    /\ l.kind \in {"balance", "shuffle"}
    /\ l.pc = "delete"
    /\ UNCHANGED assignments
    /\ Continue(l, [l EXCEPT !.pc = "insert", !.old = EmptyBag])
    /\ UNCHANGED <<teams, players, matches>>

\* MatchAssignment.query.filter_by(match_id=match.id).delete(); commit
ReplaceDelete(l) ==
    /\ l.kind \in {"balance", "shuffle"}
    /\ l.pc = "delete"
    /\ assignments' = [assignments EXCEPT ![l.m] = EmptyBag]
    /\ Continue(l, [l EXCEPT !.pc = "insert", !.old = assignments[l.m]])
    /\ UNCHANGED <<teams, players, matches>>

\* the two insert loops; commit; the response
ReplaceInsert(l) ==
    /\ l.kind \in {"balance", "shuffle"}
    /\ l.pc = "insert"
    /\ assignments' = [assignments EXCEPT ![l.m] = @ (+) NewRows(l.a, l.b)]
    /\ req' = req (-) One(l)
    /\ response' = [says |-> "sides", m |-> l.m, team_a |-> l.a, team_b |-> l.b]
    /\ UNCHANGED <<teams, players, matches, calls>>

\* ------------------------------------------------------ match_toggle_lock
ToggleBegin(m) ==
    /\ Accept
    /\ IF m \notin DOMAIN matches THEN Reject("MatchNotFound")
       ELSE IF IsLocked(m)
       THEN Start([Locals EXCEPT !.kind = "toggle", !.m = m, !.pc = "commit",
                                 !.side = "pending"])
       ELSE Start([Locals EXCEPT !.kind = "toggle", !.m = m, !.pc = "count"])
    /\ UNCHANGED <<teams, players, matches, assignments>>

ToggleCount(l) ==
    /\ l.kind = "toggle"
    /\ l.pc = "count"
    /\ IF RowCount(l.m) = 0 THEN Return(l, "CannotLockEmptyRoster")
       ELSE Continue(l, [l EXCEPT !.pc = "commit", !.side = "locked"])
    /\ UNCHANGED <<teams, players, matches, assignments>>

\* The new status is answered but not written.
ToggleCommit_KeepsStatus(l) ==
    /\ l.kind = "toggle"
    /\ l.pc = "commit"
    /\ Return(l, l.side)
    /\ UNCHANGED <<teams, players, matches, assignments>>

ToggleCommit(l) ==
    /\ l.kind = "toggle"
    /\ l.pc = "commit"
    /\ matches' = [matches EXCEPT ![l.m].status = l.side]
    /\ Return(l, l.side)
    /\ UNCHANGED <<teams, players, assignments>>

\* ---------------------------------------------------- match_assign_player
IsRemove(side, remove) == remove \/ side = "remove"

AssignBegin(m, p, side, remove) ==
    /\ Accept
    /\ IF m \notin DOMAIN matches THEN Reject("MatchNotFound")
       ELSE IF IsLocked(m) THEN Reject("MatchLocked")
       ELSE IF IsRemove(side, remove)
       THEN Start([Locals EXCEPT !.kind = "remove", !.m = m, !.pc = "delete",
                                 !.player_id = p])
       ELSE Start([Locals EXCEPT !.kind = "assign", !.m = m, !.pc = "delete",
                                 !.player_id = p, !.side = side])
    /\ UNCHANGED <<teams, players, matches, assignments>>

\* the delete of the player's rows and its commit, on both paths
AssignDelete(l) ==
    /\ l.kind \in {"assign", "remove"}
    /\ l.pc = "delete"
    /\ assignments' = [assignments EXCEPT ![l.m] = WithoutPlayer(@, l.player_id)]
    /\ IF l.kind = "remove" THEN Return(l, "ok")
       ELSE Continue(l, [l EXCEPT !.pc = "insert"])
    /\ UNCHANGED <<teams, players, matches>>

\* the insert and its commit; team_side is NOT NULL
AssignInsert(l) ==
    /\ l.kind = "assign"
    /\ l.pc = "insert"
    /\ IF l.side = NoSide
       THEN /\ Return(l, "error")
            /\ UNCHANGED assignments
       ELSE /\ assignments' = [assignments EXCEPT
                                 ![l.m] = @ (+) One(Row(l.player_id, l.side))]
            /\ Return(l, "ok")
    /\ UNCHANGED <<teams, players, matches>>

\* ------------------------------------------------------------ match_detail
\* The page shows the rows of the match as they are when it is read.
MatchDetail(m) ==
    /\ Accept
    /\ IF m \notin DOMAIN matches THEN Reject("MatchNotFound")
       ELSE Reject("detail")
    /\ UNCHANGED <<teams, players, matches, assignments>>

\* ------------------------------------------------------------------ Next
Admin ==
    \/ \E s \in Skills : create_team(TRUE, s)
    \/ create_team(FALSE, DefaultRating)
    \/ \E t \in 1..NumTeams, s \in Skills : team_add_player(t, s, <<>>)
    \/ \E t1, t2 \in teams \cup {NoTeam} : create_match(t1, t2)
    \/ \E m \in MatchIds, t \in teams : join_open_match(m, t)
    \/ \E m \in MatchIds : accept_invite(m)

\* The steps of the match requests; the history is kept only where clients
\* take turns (SpecSeq).
Requests ==
    \/ (\E m \in MatchIds : BalanceBegin(m)) /\ UNCHANGED <<last, skills, team_rating>>
    \/ (\E m \in MatchIds : ShuffleBegin(m)) /\ UNCHANGED <<last, skills, team_rating>>
    \/ (\E l \in InFlight : ReplaceDelete(l)) /\ UNCHANGED <<last, skills, team_rating>>
    \/ (\E l \in InFlight : ReplaceInsert(l)) /\ UNCHANGED <<last, skills, team_rating>>
    \/ (\E m \in MatchIds : ToggleBegin(m)) /\ UNCHANGED <<last, skills, team_rating>>
    \/ (\E l \in InFlight : ToggleCount(l)) /\ UNCHANGED <<last, skills, team_rating>>
    \/ (\E l \in InFlight : ToggleCommit(l)) /\ UNCHANGED <<last, skills, team_rating>>
    \/ (\E m \in MatchIds, p \in 1..MaxPlayers, s \in SideInputs, rm \in BOOLEAN :
          AssignBegin(m, p, s, rm)) /\ UNCHANGED <<last, skills, team_rating>>
    \/ (\E l \in InFlight : AssignDelete(l)) /\ UNCHANGED <<last, skills, team_rating>>
    \/ (\E l \in InFlight : AssignInsert(l)) /\ UNCHANGED <<last, skills, team_rating>>
    \/ (\E m \in MatchIds : MatchDetail(m)) /\ UNCHANGED <<last, skills, team_rating>>

Next == Admin \/ Requests

Spec == Init /\ [][Next]_vars

\* ------------------------------------------------- the status "completed"
\* No handler writes it; the match's status column lists it, and it is set from
\* outside the application.
mark_completed(m) ==
    /\ m \in DOMAIN matches
    /\ matches' = [matches EXCEPT ![m].status = "completed"]
    /\ response' = NoResponse
    /\ UNCHANGED <<teams, players, assignments, req, calls, last, skills, team_rating>>

NextExt == Next \/ \E m \in MatchIds : mark_completed(m)

SpecExt == Init /\ [][NextExt]_vars

\* ----------------------------------------------- the balancer on its own
\* One match between team 1 and an open slot; team 1 has up to MaxPool
\* members, whose ratings are any of PoolRatings (the add-player form takes
\* any integer).  Only balance requests are sent.
MaxPool == 5
PoolRatings == {-1, 0, 1000, 1200, 1400}

InitBalancer ==
    /\ teams = {1}
    /\ players \in UNION {[1..n -> [team_id : {1}, skill_rating : PoolRatings]] :
                            n \in 0..MaxPool}
    /\ matches = <<[team1_id |-> 1, team2_id |-> NoTeam, status |-> "pending"]>>
    /\ assignments = [m \in MatchIds |-> EmptyBag]
    /\ req = EmptyBag
    /\ response = NoResponse
    /\ calls = 0
    /\ last = NoCall
    /\ skills = [p \in DOMAIN players |-> <<>>]
    /\ team_rating = [t \in teams |->
                        recalc_team_skill(t, players, skills, DefaultRating)]

NextBalancer ==
    \/ BalanceBegin(1) /\ UNCHANGED <<last, skills, team_rating>>
    \/ (\E l \in InFlight : ReplaceDelete(l)) /\ UNCHANGED <<last, skills, team_rating>>
    \/ (\E l \in InFlight : ReplaceInsert(l)) /\ UNCHANGED <<last, skills, team_rating>>

SpecBalancer == InitBalancer /\ [][NextBalancer]_vars

\* ------------------------------------------------- the rating handlers
\* Teams, players with skills, edits and deletions; one match without teams,
\* whose invite brings in players without a team (one row at a time).
RatingInputs == {0, DefaultRating, 1400}

\* The skill_* fields of a form, as the values they carry.
SkillForms == {<<>>, <<80, 90>>, <<70>>, <<75>>}

NextRatings ==
    \/ \E c \in BOOLEAN, s \in RatingInputs : create_team(c, s)
    \/ \E t \in 1..NumTeams, s \in RatingInputs, f \in SkillForms :
          team_add_player(t, s, f)
    \/ \E p \in 1..MaxPlayers, r \in RatingInputs, f \in SkillForms :
          edit_player(p, TRUE, r, f)
    \/ \E p \in 1..MaxPlayers, f \in SkillForms : edit_player(p, FALSE, 0, f)
    \/ \E p \in 1..MaxPlayers : delete_player(p)
    \/ create_match(NoTeam, NoTeam)
    \/ \E m \in MatchIds : RowCount(m) = 0 /\ accept_invite(m)

SpecRatings == Init /\ [][NextRatings]_vars

\* ------------------------------------------------- clients that take turns
\* One match, whose requests are sent one after the other: a request is sent
\* only when none is in flight.  The database starts in a state the handlers
\* have left: team 1, players with or without a team, the match pending or
\* locked, and rows that earlier assign requests wrote.
SeqRows ==
    {EmptyBag,
     One(Row(1, "A")),
     One(Row(1, "B")) (+) One(Row(2, "A")),
     One(Row(1, "A")) (+) One(Row(2, "A"))}

InitSeq ==
    /\ teams = {1}
    /\ players \in [1..MaxPlayers -> [team_id : {NoTeam, 1}, skill_rating : Skills]]
    /\ matches \in [{1} -> [team1_id : {NoTeam, 1}, team2_id : {NoTeam, 1},
                            status : {"pending", "locked"}]]
    /\ \E rows \in SeqRows : assignments = [m \in MatchIds |-> IF m = 1 THEN rows ELSE EmptyBag]
    /\ req = EmptyBag
    /\ response = NoResponse
    /\ calls = 0
    /\ last = NoCall
    /\ skills = [p \in DOMAIN players |-> <<>>]
    /\ team_rating = [t \in teams |->
                        recalc_team_skill(t, players, skills, DefaultRating)]

TheRequest == CHOOSE l \in InFlight : TRUE

\* The history: when a step answers a request, the request (its locals; none
\* for a request answered on arrival), the answer and the rows left.
Track ==
    last' = IF req' # EmptyBag THEN last
            ELSE [call |-> IF req = EmptyBag THEN Locals ELSE TheRequest,
                  says |-> response'.says,
                  rows |-> assignments']

Idle == req = EmptyBag

NextSeq ==
    \/ Idle /\ (\E m \in MatchIds : BalanceBegin(m)) /\ Track /\ UNCHANGED <<skills, team_rating>>
    \/ Idle /\ (\E m \in MatchIds : ShuffleBegin(m)) /\ Track /\ UNCHANGED <<skills, team_rating>>
    \/ (\E l \in InFlight : ReplaceDelete(l)) /\ Track /\ UNCHANGED <<skills, team_rating>>
    \/ (\E l \in InFlight : ReplaceInsert(l)) /\ Track /\ UNCHANGED <<skills, team_rating>>
    \/ Idle /\ (\E m \in MatchIds : ToggleBegin(m)) /\ Track /\ UNCHANGED <<skills, team_rating>>
    \/ (\E l \in InFlight : ToggleCount(l)) /\ Track /\ UNCHANGED <<skills, team_rating>>
    \/ (\E l \in InFlight : ToggleCommit(l)) /\ Track /\ UNCHANGED <<skills, team_rating>>
    \/ Idle /\ (\E m \in MatchIds, p \in 1..MaxPlayers, s \in SideInputs, rm \in BOOLEAN :
          AssignBegin(m, p, s, rm)) /\ Track /\ UNCHANGED <<skills, team_rating>>
    \/ (\E l \in InFlight : AssignDelete(l)) /\ Track /\ UNCHANGED <<skills, team_rating>>
    \/ (\E l \in InFlight : AssignInsert(l)) /\ Track /\ UNCHANGED <<skills, team_rating>>

SpecSeq == InitSeq /\ [][NextSeq]_vars

\* ================================================================ claims
\* The steps of a request that delete or insert assignment rows.
MutationStep(l) ==
    ReplaceDelete(l) \/ ReplaceInsert(l) \/ AssignDelete(l) \/ AssignInsert(l)

\* A client calls balance, shuffle, assign or assign-with-remove on match m.
MutatorCalledOn(m) ==
    \/ BalanceBegin(m)
    \/ ShuffleBegin(m)
    \/ \E p \in 1..MaxPlayers, s \in SideInputs, rm \in BOOLEAN :
          AssignBegin(m, p, s, rm)

\* The number of rows match m holds for player p.
RowsOfPlayer(m, p) ==
    BagCardinality([e \in {x \in DOMAIN assignments[m] : x.player_id = p}
                      |-> assignments[m][e]])

\* C1: a call of balance, shuffle, assign or assign-with-remove on a match
\* whose status is locked is answered MatchLocked, and the call leaves the
\* match's assignment rows and its status as they were (no request is started).
C1_LockedRejects ==
    [][\A m \in DOMAIN matches :
          (matches[m].status = "locked" /\ MutatorCalledOn(m))
              => /\ response' = Says("MatchLocked")
                 /\ assignments' = assignments
                 /\ matches' = matches
                 /\ req' = req]_vars

\* A mutating call has just been rejected on a locked match that holds rows.
C1_Witness ==
    /\ response = Says("MatchLocked")
    /\ \E m \in DOMAIN matches :
          matches[m].status = "locked" /\ assignments[m] # EmptyBag

\* C2: no step of a balance, shuffle or assign request deletes or inserts a
\* row of a match at a moment when the match's committed status is locked.
C2_NoMutationWhileLocked ==
    [][\A l \in InFlight :
          (MutationStep(l) /\ matches[l.m].status = "locked")
              => assignments'[l.m] = assignments[l.m]]_vars

\* C3: in every reachable state each match holds at most one assignment row
\* per player.
C3_OneRowPerPlayer ==
    \A m \in MatchIds, p \in 1..MaxPlayers : RowsOfPlayer(m, p) <= 1

\* The members of the teams match m names in its set slots.
TeamMembers(m) ==
    {p \in DOMAIN players :
        \/ matches[m].team1_id # NoTeam /\ players[p].team_id = matches[m].team1_id
        \/ matches[m].team2_id # NoTeam /\ players[p].team_id = matches[m].team2_id}

\* The requests a step has started.
Started == {l \in BagToSet(req') : CopiesIn(l, req') > CopiesIn(l, req)}

\* A balance or shuffle that has committed its delete and not yet its inserts.
MidReplace(w, m) == w.kind \in {"balance", "shuffle"} /\ w.pc = "insert" /\ w.m = m

\* A step reads the rows of match m: the detail page, or toggleLock's count.
ReadsRows(m) ==
    \/ m \in DOMAIN matches /\ MatchDetail(m)
    \/ \E l \in InFlight : l.m = m /\ ToggleCount(l)

NoRepeats(s) == \A i, j \in DOMAIN s : s[i] = s[j] => i = j

\* C4: a toggleLock that found its match not locked counts the match's rows.
\* With no row it is answered CannotLockEmptyRoster, writes nothing and ends;
\* with at least one row it goes on to commit the status locked and is
\* answered locked.  No other step makes a request about to commit locked.
C4_LockNeedsRoster ==
    [][/\ \A l \in InFlight : ToggleCount(l) =>
             IF BagCardinality(assignments[l.m]) = 0
             THEN /\ response' = Says("CannotLockEmptyRoster")
                  /\ matches' = matches
                  /\ req' = req (-) One(l)
             ELSE /\ req' = (req (-) One(l)) (+)
                               One([l EXCEPT !.pc = "commit", !.side = "locked"])
                  /\ matches' = matches
       /\ \A l \in InFlight : (ToggleCommit(l) /\ l.side = "locked") =>
             /\ matches'[l.m].status = "locked"
             /\ response' = Says("locked")
       /\ \A l \in BagToSet(req') :
             (l.kind = "toggle" /\ l.pc = "commit" /\ l.side = "locked"
              /\ CopiesIn(l, req') > CopiesIn(l, req))
                 => \E c \in InFlight :
                       /\ ToggleCount(c)
                       /\ c.m = l.m
                       /\ BagCardinality(assignments[c.m]) >= 1]_vars

\* A toggleLock has just locked a pending match that holds rows.
C4_Witness ==
    /\ response = Says("locked")
    /\ \E m \in DOMAIN matches :
          matches[m].status = "locked" /\ assignments[m] # EmptyBag

\* C5: a read of a match's rows (the detail page, the count of toggleLock)
\* made while a balance or shuffle replaces them observes the complete old
\* set or the complete new one.
C5_ReadsSeeOldOrNew ==
    [][\A m \in MatchIds :
          ReadsRows(m) =>
              \A w \in InFlight :
                  MidReplace(w, m) =>
                      assignments[m] \in {w.old, NewRows(w.a, w.b)}]_vars

\* C6: when the second of two concurrent balance or shuffle requests on a
\* match finishes (the first has just answered, none is left in flight), the
\* rows of the match are exactly the partition of one of the two.
C6_ReplaceAllSerializes ==
    [][\A l \in InFlight :
          (/\ ReplaceInsert(l)
           /\ response.says = "sides"
           /\ response.m = l.m
           /\ \A w \in BagToSet(req') :
                 ~(w.kind \in {"balance", "shuffle"} /\ w.m = l.m))
              => assignments'[l.m] \in {NewRows(l.a, l.b),
                                       NewRows(response.team_a, response.team_b)}]_vars

\* C7: on a match whose status is completed, balance, shuffle, assign and
\* remove are answered MatchLocked and start nothing, and no step changes the
\* status away from completed.
C7_CompletedIsFrozen ==
    [][\A m \in DOMAIN matches :
          matches[m].status = "completed" =>
              /\ MutatorCalledOn(m) =>
                    /\ response' = Says("MatchLocked")
                    /\ assignments' = assignments
                    /\ req' = req
              /\ matches'[m].status = "completed"]_vars

\* C8 as stated: the pool of a balance or shuffle is the members of the set
\* teams whenever a team slot is set, and every player only when none is.
C8_PoolAsStated ==
    [][\A m \in DOMAIN matches :
          (BalanceBegin(m) \/ ShuffleBegin(m)) =>
              \A l \in Started :
                  Range(l.pool) =
                      IF matches[m].team1_id # NoTeam \/ matches[m].team2_id # NoTeam
                      THEN TeamMembers(m) ELSE DOMAIN players]_vars

\* C8 as amended: the pool of a balance or shuffle is the members of the set
\* teams whenever there is such a member, and every player when there is
\* none (no slot set, or the set teams without members).
C8_PoolWithFallback ==
    [][\A m \in DOMAIN matches :
          (BalanceBegin(m) \/ ShuffleBegin(m)) =>
              \A l \in Started :
                  Range(l.pool) =
                      IF TeamMembers(m) # {} THEN TeamMembers(m)
                      ELSE DOMAIN players]_vars

\* A balance or shuffle has taken every player as its pool although a team
\* slot of its match is set: the team in it has no member.
C8_Witness ==
    \E l \in InFlight :
        /\ l.kind \in {"balance", "shuffle"}
        /\ l.pc = "delete"
        /\ matches[l.m].team1_id # NoTeam
        /\ TeamMembers(l.m) = {}
        /\ Range(l.pool) = DOMAIN players
        /\ l.pool # <<>>
        /\ Range(l.pool) = DOMAIN players
        /\ l.pool # <<>>

\* ---- the balance policy, stated apart from the way balance_teams computes it
PosIn(pool, x) == CHOOSE i \in DOMAIN pool : pool[i] = x

\* y is taken before x: a higher rating, or the same rating and earlier in the pool
Before(pool, key, y, x) ==
    \/ key[y] > key[x]
    \/ key[y] = key[x] /\ PosIn(pool, y) < PosIn(pool, x)

\* the pool in the order the policy takes it
TakenOrder(pool, key) ==
    [k \in 1..Len(pool) |->
        CHOOSE x \in Range(pool) :
            Cardinality({y \in Range(pool) : Before(pool, key, y, x)}) = k - 1]

RECURSIVE SetSum(_, _)
SetSum(S, key) ==
    IF S = {} THEN 0
    ELSE LET x == CHOOSE y \in S : TRUE IN key[x] + SetSum(S \ {x}, key)

\* Each player in turn went to the side whose running sum was lower, a tie to A.
IsGreedy(pool, key, a, b) ==
    LET q == TakenOrder(pool, key)
        InA(x) == x \in Range(a)
        sumA(k) == SetSum({q[j] : j \in {i \in 1..(k - 1) : InA(q[i])}}, key)
        sumB(k) == SetSum({q[j] : j \in {i \in 1..(k - 1) : ~InA(q[i])}}, key)
    IN /\ \A k \in 1..Len(pool) : InA(q[k]) <=> sumA(k) <= sumB(k)
       /\ a = SelectSeq(q, InA)
       /\ b = SelectSeq(q, LAMBDA x : ~InA(x))

IsPartition(pool, a, b) ==
    /\ Range(a) \cap Range(b) = {}
    /\ Range(a) \cup Range(b) = Range(pool)
    /\ Len(a) + Len(b) = Len(pool)

MaxRating(pool, key) ==
    IF pool = <<>> THEN 0 ELSE Max({key[p] : p \in Range(pool)})

Abs(x) == IF x < 0 THEN -x ELSE x

WithinGreedyBound(pool, key, a, b) ==
    Abs(SeqSum(a, key) - SeqSum(b, key)) <= MaxRating(pool, key)

Balancing == {l \in InFlight : l.kind = "balance"}

\* C9 as stated: for every pool, the empty and singleton ones included,
\* balance returns two disjoint sides whose union is the pool, built greedily
\* in descending rating order (ties of the sums to side A), and the sums of
\* the two sides differ by at most the highest rating in the pool.
C9_BalanceAsStated ==
    \A l \in Balancing :
        /\ IsPartition(l.pool, l.a, l.b)
        /\ IsGreedy(l.pool, Rating, l.a, l.b)
        /\ WithinGreedyBound(l.pool, Rating, l.a, l.b)

\* C9 as amended: the same, the bound on the difference of the sums holding
\* for the pools in which no rating is negative (0 bounds the empty pool).
C9_BalanceNonNegative ==
    \A l \in Balancing :
        /\ IsPartition(l.pool, l.a, l.b)
        /\ IsGreedy(l.pool, Rating, l.a, l.b)
        /\ (\A p \in Range(l.pool) : Rating[p] >= 0)
              => WithinGreedyBound(l.pool, Rating, l.a, l.b)

\* A balance of a full pool without negative ratings, in which two players are
\* rated the same, has come out with unequal sums.
C9_Witness ==
    \E l \in Balancing :
        /\ Len(l.pool) = MaxPool
        /\ \A p \in Range(l.pool) : Rating[p] >= 0
        /\ \E p, q \in Range(l.pool) : p # q /\ Rating[p] = Rating[q]
        /\ SeqSum(l.a, Rating) # SeqSum(l.b, Rating)
        /\ l.b # <<>>

\* C10: a shuffle of a pool of n players answers with two disjoint sides whose
\* union is the pool, floor(n/2) players on side A and the others on side B,
\* and the rows of the match once it has committed are exactly those sides.
C10_ShufflePersistsItsSides ==
    [][\A l \in InFlight :
          (ReplaceInsert(l) /\ l.kind = "shuffle") =>
              /\ IsPartition(l.pool, l.a, l.b)
              /\ NoRepeats(l.a \o l.b)
              /\ Len(l.a) = Len(l.pool) \div 2
              /\ Len(l.b) = Len(l.pool) - (Len(l.pool) \div 2)
              /\ assignments'[l.m] = NewRows(l.a, l.b)]_vars

\* ----------------------------------------- requests sent one after another
\* The rows of player p among the rows B, and the rows of the other players.
PlayerRows(B, p) == [e \in {x \in DOMAIN B : x.player_id = p} |-> B[e]]

OtherRows(B, p) == [e \in {x \in DOMAIN B : x.player_id # p} |-> B[e]]

TwoSides == {"A", "B"}

\* The request answered last was an assign of player p of match m to side s.
LastAssigned(m, p, s) ==
    /\ last.call.kind = "assign"
    /\ last.says = "ok"
    /\ last.call.m = m
    /\ last.call.player_id = p
    /\ last.call.side = s

\* C11: when an assign of a player to one side is followed at once by an
\* assign of the same player of the same match to the other side, the match
\* then holds exactly one row of the player, carrying the other side, and the
\* rows of every other player are the ones it held after the first assign.
C11_ReassignMovesPlayer ==
    [][\A l \in InFlight :
          (/\ AssignInsert(l)
           /\ l.side \in TwoSides
           /\ \E s \in TwoSides \ {l.side} : LastAssigned(l.m, l.player_id, s))
              => /\ PlayerRows(assignments'[l.m], l.player_id)
                        = One(Row(l.player_id, l.side))
                 /\ OtherRows(assignments'[l.m], l.player_id)
                        = OtherRows(last.rows[l.m], l.player_id)
                 /\ response' = Says("ok")]_vars

\* The second of two such assigns is about to insert its row: the first left
\* the player on side A, the second moves it to side B, and another player
\* holds a row of the match.
C11_Witness ==
    \E l \in InFlight :
        /\ l.kind = "assign"
        /\ l.pc = "insert"
        /\ l.side = "B"
        /\ LastAssigned(l.m, l.player_id, "A")
        /\ Row(l.player_id, "A") \in DOMAIN last.rows[l.m]
        /\ OtherRows(assignments[l.m], l.player_id) # EmptyBag

\* The request l repeats the arguments of the request answered last.
RepeatsLast(l) ==
    /\ l.kind \in {"assign", "remove"}
    /\ last.call.kind = l.kind
    /\ last.call.m = l.m
    /\ last.call.player_id = l.player_id
    /\ last.call.side = l.side

\* The step with which an assign or a remove returns.
AssignReturns(l) ==
    \/ l.kind = "assign" /\ AssignInsert(l)
    \/ l.kind = "remove" /\ AssignDelete(l)

\* C12: an assign or a remove that repeats the arguments of the request
\* answered just before it leaves the rows the first one left (the same rows,
\* so the same set of (player, side) pairs); and the remove of a player that
\* holds no row of the match is answered ok and changes no row.
C12_RepeatIsNoOp ==
    [][\A l \in InFlight :
          /\ (AssignReturns(l) /\ RepeatsLast(l))
                => assignments'[l.m] = last.rows[l.m]
          /\ (/\ AssignDelete(l)
              /\ l.kind = "remove"
              /\ PlayerRows(assignments[l.m], l.player_id) = EmptyBag)
                => /\ response' = Says("ok")
                   /\ assignments' = assignments]_vars

\* A remove of a player without a row is in flight on a match that holds rows
\* of another player, and it repeats the remove answered just before.
C12_Witness ==
    \E l \in InFlight :
        /\ l.kind = "remove"
        /\ l.pc = "delete"
        /\ RepeatsLast(l)
        /\ last.says = "ok"
        /\ PlayerRows(assignments[l.m], l.player_id) = EmptyBag
        /\ assignments[l.m] # EmptyBag

\* C13: when a balance of a match follows at once a balance of the same match
\* with the same pool, the rows it leaves are the rows the first one left:
\* the same players on the same sides, and no row a second time.
C13_BalanceTwiceIsOnce ==
    [][\A l \in InFlight :
          (/\ ReplaceInsert(l)
           /\ l.kind = "balance"
           /\ last.call.kind = "balance"
           /\ last.call.m = l.m
           /\ last.call.pool = l.pool)
              => /\ assignments'[l.m] = last.rows[l.m]
                 /\ assignments'[l.m] = NewRows(l.a, l.b)]_vars

\* The second of two balances has both sides filled and is about to insert.
C13_Witness ==
    \E l \in InFlight :
        /\ l.kind = "balance"
        /\ l.pc = "insert"
        /\ last.call.kind = "balance"
        /\ last.call.pool = l.pool
        /\ l.a # <<>>
        /\ l.b # <<>>
        /\ last.rows[l.m] = NewRows(l.a, l.b)

\* The request answered last was a toggleLock that set match m back to pending.
LastUnlocked(m) ==
    /\ last.call.kind = "toggle"
    /\ last.call.m = m
    /\ last.says = "pending"

\* C14: a toggleLock of a locked match goes on to write pending whatever rows
\* the match holds, and is answered pending.  A balance, shuffle, assign or
\* remove sent right after it is not rejected, and does what it does on a
\* pending match: the balance or shuffle leaves exactly the rows of its two
\* sides, the assign exactly one row of its player, on its side, the remove
\* no row of its player.
C14_UnlockReopens ==
    [][/\ \A m \in DOMAIN matches :
             (ToggleBegin(m) /\ matches[m].status = "locked")
                => \E l \in Started :
                      l.kind = "toggle" /\ l.pc = "commit" /\ l.side = "pending"
       /\ \A l \in InFlight :
             (ToggleCommit(l) /\ l.side = "pending")
                => /\ matches'[l.m].status = "pending"
                   /\ response' = Says("pending")
                   /\ assignments' = assignments
       /\ \A m \in DOMAIN matches :
             (MutatorCalledOn(m) /\ LastUnlocked(m))
                => /\ Started # {}
                   /\ response' = NoResponse
       /\ \A l \in InFlight :
             LastUnlocked(l.m) =>
                /\ ReplaceInsert(l) =>
                      /\ assignments'[l.m] = NewRows(l.a, l.b)
                      /\ response'.says = "sides"
                /\ (AssignInsert(l) /\ l.side \in TwoSides) =>
                      /\ PlayerRows(assignments'[l.m], l.player_id)
                            = One(Row(l.player_id, l.side))
                      /\ response' = Says("ok")
                /\ (AssignDelete(l) /\ l.kind = "remove") =>
                      /\ PlayerRows(assignments'[l.m], l.player_id) = EmptyBag
                      /\ response' = Says("ok")]_vars

\* A shuffle of a pool of players is about to insert its rows on a match that
\* the request before it unlocked.
C14_Witness ==
    \E l \in InFlight :
        /\ l.kind = "shuffle"
        /\ l.pc = "insert"
        /\ l.a # <<>>
        /\ LastUnlocked(l.m)
        /\ last.rows[l.m] # EmptyBag

\* ------------------------------------------------------------- ratings
\* r is total / count rounded to the nearest integer, a half to the even one.
IsRoundOf(r, total, count) ==
    /\ 2 * Abs(count * r - total) <= count
    /\ 2 * Abs(count * r - total) = count => r % 2 = 0

MembersOf(t, P) == {p \in DOMAIN P : P[p].team_id = t}

\* The skill entries of the members of team t, flattened: how many, their sum.
EntryCount(t, P, S) == Total(MembersOf(t, P), [p \in MembersOf(t, P) |-> Len(S[p])])

EntrySum(t, P, S) == Total(MembersOf(t, P), [p \in MembersOf(t, P) |-> SumOf(S[p])])

\* A player is added to team t, or a player of team t is edited.
AddsOrEdits(t) ==
    \/ \E r \in RatingInputs, f \in SkillForms : team_add_player(t, r, f)
    \/ \E p \in MembersOf(t, players), r \in RatingInputs, f \in SkillForms :
          edit_player(p, TRUE, r, f)
    \/ \E p \in MembersOf(t, players), f \in SkillForms : edit_player(p, FALSE, 0, f)

\* C15: after a player is added to a team or a player of the team is edited,
\* the team's rating is the rounded flat mean of all skill entries of all its
\* members, whenever there is at least one entry.
C15_TeamRatingIsFlatMean ==
    [][\A t \in teams :
          (AddsOrEdits(t) /\ EntryCount(t, players', skills') > 0)
              => IsRoundOf(team_rating'[t], EntrySum(t, players', skills'),
                           EntryCount(t, players', skills'))]_vars

\* A team whose two members have the entries {80, 90} and {70} is rated 80.
C15_Witness ==
    \E t \in teams :
        /\ \E p, q \in MembersOf(t, players) :
              skills[p] = <<80, 90>> /\ skills[q] = <<70>>
        /\ team_rating[t] = 80

\* r is the rating of team t recomputed from the Player rows P and the
\* PlayerSkill rows S: the flat mean of the members' entries; without entries
\* the mean of the members' own ratings; without members the rating of before.
IsRecomputed(r, t, P, S, old) ==
    IF EntryCount(t, P, S) > 0
    THEN IsRoundOf(r, EntrySum(t, P, S), EntryCount(t, P, S))
    ELSE IF MembersOf(t, P) # {}
    THEN IsRoundOf(r, Total(MembersOf(t, P),
                            [p \in MembersOf(t, P) |-> P[p].skill_rating]),
                   Cardinality(MembersOf(t, P)))
    ELSE r = old

\* C16: after a player of a team is deleted, the team's rating is the one
\* recomputed over the members that remain.  (A rating of 0 is recomputed in
\* two ways, as it is or as 1200; either is accepted here.)
C16_DeleteRecalculates ==
    [][\A p \in DOMAIN players :
          (delete_player(p) /\ players[p].team_id # NoTeam)
              => LET t == players[p].team_id
                 IN \/ IsRecomputed(team_rating'[t], t, players', skills', team_rating[t])
                    \/ team_rating'[t]
                          = recalc_team_skill(t, players', skills', team_rating[t])]_vars

\* C17: the delete of a player, with or without a team, with or without
\* teammates, ends in success: the player and its skill rows are gone, and no
\* error is answered whatever became of the recalculation.
C17_DeleteEndsInSuccess ==
    [][\A p \in DOMAIN players :
          delete_player(p)
              => /\ response' = Says("redirect")
                 /\ p \notin DOMAIN players'
                 /\ p \notin DOMAIN skills']_vars

\* C18: a player created or edited with skill entries is rated the rounded
\* mean of the entries; without entries the player keeps the rating of
\* before (the one it is created with).
C18_PlayerRatingFromSkills ==
    [][/\ \A t \in teams, r \in RatingInputs, f \in SkillForms :
             team_add_player(t, r, f) =>
                LET p == NextId(DOMAIN players)
                IN IF f # <<>>
                   THEN IsRoundOf(players'[p].skill_rating, SumOf(f), Len(f))
                   ELSE players'[p].skill_rating = r
       /\ \A p \in DOMAIN players, h \in BOOLEAN, r \in RatingInputs, f \in SkillForms :
             edit_player(p, h, r, f) =>
                IF f # <<>>
                THEN IsRoundOf(players'[p].skill_rating, SumOf(f), Len(f))
                ELSE ~h => players'[p].skill_rating = players[p].skill_rating]_vars

\* A client calls assign, with or without remove, for player id p on match m.
AssignCalled(m, p) ==
    \E s \in SideInputs, rm \in BOOLEAN : AssignBegin(m, p, s, rm)

\* The call is answered res at once and nothing of the match data changes.
FailsWith(res) ==
    /\ response' = Says(res)
    /\ req' = req
    /\ assignments' = assignments
    /\ matches' = matches

\* C19: an assign that names no existing player is answered PlayerNotFound
\* (MatchLocked is accepted too where the match is locked), a balance,
\* shuffle, toggleLock or assign that names no existing match is answered
\* MatchNotFound; either way no request is started, and no step of an assign
\* deletes or inserts a row for a player that does not exist.
C19_UnknownIdsFail ==
    [][/\ \A m \in DOMAIN matches, p \in (1..MaxPlayers) \ DOMAIN players :
             AssignCalled(m, p)
                => \/ FailsWith("PlayerNotFound")
                   \/ IsLocked(m) /\ FailsWith("MatchLocked")
       /\ \A m \in MatchIds \ DOMAIN matches :
             (MutatorCalledOn(m) \/ ToggleBegin(m)) => FailsWith("MatchNotFound")
       /\ \A l \in InFlight :
             (l.player_id \notin DOMAIN players /\ (AssignDelete(l) \/ AssignInsert(l)))
                => assignments' = assignments]_vars

\* C20: the side of every MatchAssignment row is A or B.
C20_SidesAreAOrB ==
    \A m \in DOMAIN assignments :
        \A e \in DOMAIN assignments[m] : e.team_side \in TwoSides

\* C21: recalc_team_skill leaves the rating of a team without members as it
\* is, a rating of 0 included; and the rating it stores for a team with
\* members and no skill entries is the rounded mean of the members' own
\* ratings as they are (no Player row is without a rating).  The first part
\* is about the function on every team without members, the second about
\* every add and edit, which call it.
C21_RecalcKeepsSetRatings ==
    [][/\ \A t \in teams :
             MembersOf(t, players) = {}
                => recalc_team_skill(t, players, skills, team_rating[t]) = team_rating[t]
       /\ \A t \in teams :
             (AddsOrEdits(t) /\ EntryCount(t, players', skills') = 0)
                => IsRecomputed(team_rating'[t], t, players', skills', team_rating[t])]_vars

\* C22: a match whose status is locked holds at least one assignment row,
\* however the steps of toggleLock, balance, shuffle, assign and remove
\* requests interleave.
C22_LockedHasRoster ==
    \A m \in DOMAIN matches : IsLocked(m) => assignments[m] # EmptyBag

\* C23: while a match is locked (locked before the step and after it), no
\* step of any operation, the acceptance of a match invite included, changes
\* the match's assignment rows.
C23_LockedRowsAreFrozen ==
    [][\A m \in DOMAIN matches :
          (IsLocked(m) /\ matches'[m].status = "locked")
              => assignments'[m] = assignments[m]]_vars

\* C24: every assignment row is the row of a player that exists.
C24_RowsNameExistingPlayers ==
    \A m \in DOMAIN assignments :
        \A e \in DOMAIN assignments[m] : e.player_id \in DOMAIN players

====
